---- MODULE Spec2Model ----
(***************************************************************************)
(* Model of src/prepare-release.js: the pre-release pull request           *)
(* reconciler (prepareRelease), its diff step (computeDiff) and the        *)
(* version bump, run against a model of the GitHub REST gateway.           *)
(*                                                                         *)
(* Strings that the code takes apart (the manifest version) are sequences  *)
(* of one-character strings.  Strings that the code only builds and        *)
(* compares (PR title, PR body) are records of the values interpolated in  *)
(* the template.  A text whose length matters (the diff) is a record       *)
(* [src, len]: the first len characters of the text identified by src.     *)
(***************************************************************************)
EXTENDS Integers, Sequences, FiniteSets, TLC

\* ------------------------------------------------------------------ bounds
\* Number of prepareRelease runs started in a behaviour.
MaxRuns == 2
\* Number of commits pushed to the default branch after the initial one.
MaxPush == 1
\* Number of failures injected in a behaviour: gateway calls that fail in
\* transit, computeDiff commands that throw, removals that fail.
MaxFaults == 1
\* Longest manifest version string explored by SpecBump.
MaxVerLen == 6

\* ---------------------------------------------------------- program constants
owner == "w3c"
repo == "browser-specs"
\* if (diff.length > 60000), diff.substring(0, 60000)
DiffCap == 60000

\* -------------------------------------------------------------- JS strings
Digits == <<"0", "1", "2", "3", "4", "5", "6", "7", "8", "9">>
IsDigit(ch) == \E i \in 1..10 : Digits[i] = ch
DigitVal(ch) == (CHOOSE i \in 1..10 : Digits[i] = ch) - 1
\* A JS Number that is an integer, or NaN.
Num(n) == [nan |-> FALSE, val |-> n]
NaN == [nan |-> TRUE, val |-> 0]

\* String.prototype.split("."): the pieces between the dots, empty ones kept.
RECURSIVE SplitFrom(_, _, _)
SplitFrom(s, i, cur) ==
  IF i > Len(s) THEN <<cur>>
  ELSE IF s[i] = "." THEN <<cur>> \o SplitFrom(s, i + 1, <<>>)
  ELSE SplitFrom(s, i + 1, Append(cur, s[i]))
Split(s) == SplitFrom(s, 1, <<>>)

\* The value of the longest run of decimal digits of s starting at i,
\* acc being the value of the digits already read.
RECURSIVE DigitsFrom(_, _, _)
DigitsFrom(s, i, acc) ==
  IF i > Len(s) \/ ~IsDigit(s[i]) THEN acc
  ELSE DigitsFrom(s, i + 1, 10 * acc + DigitVal(s[i]))

\* First index of s at or after i that holds no white space.
RECURSIVE SkipSpace(_, _)
SkipSpace(s, i) ==
  IF i <= Len(s) /\ s[i] = " " THEN SkipSpace(s, i + 1) ELSE i

\* parseInt(nb, 10): leading white space skipped, an optional sign, then the
\* longest prefix of digits; NaN when there is no digit; what follows the
\* digits is ignored.
ParseInt(s) ==
  LET i == SkipSpace(s, 1)
      signed == i <= Len(s) /\ s[i] \in {"-", "+"}
      j == IF signed THEN i + 1 ELSE i
  IN IF j > Len(s) \/ ~IsDigit(s[j]) THEN NaN
     ELSE IF signed /\ s[i] = "-" THEN Num(0 - DigitsFrom(s, j, 0))
     ELSE Num(DigitsFrom(s, j, 0))

\* Number + Number, NaN absorbing.
NumAdd(a, k) == IF a.nan THEN NaN ELSE Num(a.val + k)

\* Number::toString of an integer (or NaN), as Array.prototype.join applies it.
RECURSIVE NatToStr(_)
NatToStr(n) ==
  IF n < 10 THEN <<Digits[n + 1]>>
  ELSE Append(NatToStr(n \div 10), Digits[(n % 10) + 1])
NumToStr(a) ==
  IF a.nan THEN <<"N", "a", "N">>
  ELSE IF a.val < 0 THEN <<"-">> \o NatToStr(0 - a.val)
  ELSE NatToStr(a.val)

\* Array.prototype.join("."), over the numbers of a mapped array.
RECURSIVE JoinFrom(_, _)
JoinFrom(nums, i) ==
  IF i > Len(nums) THEN <<>>
  ELSE IF i = Len(nums) THEN NumToStr(nums[i])
  ELSE NumToStr(nums[i]) \o <<".">> \o JoinFrom(nums, i + 1)
Join(nums) == JoinFrom(nums, 1)

\* The increment the map callback adds to the component at (0-based) idx:
\* (idx === 2) ? 1 : 0
PatchIncrementSkipped(idx) == 0
PatchIncrement(idx) == IF idx = 2 THEN 1 ELSE 0

\* version.split(".").map((nb, idx) => parseInt(nb, 10) + ((idx === 2) ? 1 : 0)).join(".")
BumpVersion(version) ==
  LET parts == Split(version)
  IN Join([k \in 1..Len(parts) |-> NumAdd(ParseInt(parts[k]), PatchIncrement(k - 1))])

\* ------------------------------------------------------------------- texts
\* A text of which only identity and length matter.
Text(src, len) == [src |-> src, len |-> len]
EmptyText == Text(<<>>, 0)
\* String.prototype.substring(0, n)
Substring(t, n) == Text(t.src, IF t.len < n THEN t.len ELSE n)

\* Buffer.from(str).toString("base64"), and the gateway's decoding of it.
btoa(str) == [base64 |-> str]
atob(enc) == enc.base64

\* A manifest file is the text of a JSON object: its <<key, value>> members
\* in order.  require() parses it to an object, JSON.stringify writes one.
JSONParse(text) == [k \in {text[i][1] : i \in 1..Len(text)} |->
                      LET i == CHOOSE j \in 1..Len(text) :
                                 /\ text[j][1] = k
                                 /\ \A h \in (j + 1)..Len(text) : text[h][1] # k
                      IN text[i][2]]
\* Members are written in the order the file listed them (a parsed object
\* keeps its insertion order); keys holds that order.
JSONStringify(obj, keys) == [i \in 1..Len(keys) |-> <<keys[i], obj[keys[i]]>>]
KeysOf(text) == [i \in 1..Len(text) |-> text[i][1]]

\* ------------------------------------------------- the world outside the run
\* Package names and branch names are sequences of their dash-delimited words:
\* <<"release", "browser", "specs", "3">> is release-browser-specs-3.
PackageName == <<"browser", "specs">>

V(a, b, c) == <<a, ".", b, ".", c>>
\* Versions a manifest of the repository may carry in Spec: a well formed one
\* whose patch component carries, and one with two components only.
Versions == {V("0", "0", "9"), <<"0", ".", "9">>}
ManifestOf(name, version) == << <<"name", name>>, <<"version", version>> >>
Manifests == {ManifestOf(PackageName, v) : v \in Versions}

\* A packages/<folder> tree (manifest excluded): its identity and its size.
Trees == {[id |-> 0, chars |-> 100], [id |-> 1, chars |-> 200]}
PublishedTree == CHOOSE t \in Trees : t.id = 0

\* What the three diff commands print for an installed tree and a repository
\* tree: nothing when they are equal, else a text as long as both.
DiffOutput(installed, folder) ==
  IF installed = folder THEN EmptyText
  ELSE Text(<<installed.id, folder.id>>, installed.chars + folder.chars)

\* ------------------------------------------------ computeDiff, line by line
\* A file name is the sequence of its space-delimited words, a file text the
\* sequence of its characters (one line), a directory a function from the
\* names of Listing to files.
Absent == [present |-> FALSE, text |-> <<>>]
File(text) == [present |-> TRUE, text |-> text]
ManifestFile == <<"package.json">>
ReadmeFile == <<"README.md">>
LicenseFile == <<"LICENSE.md">>
IndexFile == <<"index.json">>
SpacedFile == <<"a", "b.json">>
\* The order in which diff visits the names of two directories.
Listing == <<LicenseFile, ReadmeFile, SpacedFile, IndexFile, ManifestFile>>
\* --exclude=package.json --exclude=README.md --exclude=LICENSE.md
Excluded == {ManifestFile, ReadmeFile, LicenseFile}

\* --ignore-trailing-space
RECURSIVE RTrim(_)
RTrim(text) ==
  IF text # <<>> /\ text[Len(text)] = " "
  THEN RTrim(SubSeq(text, 1, Len(text) - 1))
  ELSE text
SameText(a, b) == RTrim(a) = RTrim(b)

\* A directory path is the sequence of its segments, a segment the sequence
\* of its dash-delimited words.
TmpFolder(tmp) == <<"/tmp/package", ToString(tmp)>>
InstalledFiles(tmp, name) == <<TmpFolder(tmp), <<"node_modules">>, name>>
PackagesDir(folder) == << <<"packages">>, folder >>
Path(dir, file) == [dir |-> dir, file |-> file]

\* The lines diff prints.  A header line carries the time stamp of its file.
NoStamp == [stripped |-> TRUE]
Stamp(at) == [stripped |-> FALSE, at |-> at]
Blank == [kind |-> "blank"]
CommandLine(from, to) == [kind |-> "diff", from |-> from, to |-> to]
FromLine(path, at) == [kind |-> "---", path |-> path, stamp |-> Stamp(at)]
ToLine(path, at) == [kind |-> "+++", path |-> path, stamp |-> Stamp(at)]
Hunk(old, new) == [kind |-> "@@", old |-> old, new |-> new]
OnlyIn(dir, file) == [kind |-> "Only in", dir |-> dir, file |-> file]
Heading(words) == [kind |-> "heading", words |-> words]
Item(sign, file) == [kind |-> "item", sign |-> sign, file |-> file]

\* diff --unified=3 of two files that exist: nothing when they are the same.
UnifiedDiff(from, to, a, b, at) ==
  IF SameText(a.text, b.text) THEN <<>>
  ELSE <<FromLine(from, at), ToLine(to, at), Hunk(a.text, b.text)>>

\* What diff of the two directories prints for one name.
DiffEntry(instDir, repoDir, inst, local, f, at) ==
  LET a == inst[f]
      b == local[f]
      from == Path(instDir, f)
      to == Path(repoDir, f)
  IN
  IF f \in Excluded THEN <<>>
  ELSE IF a.present /\ b.present
       THEN IF SameText(a.text, b.text) THEN <<>>
            ELSE <<CommandLine(from, to)>> \o UnifiedDiff(from, to, a, b, at)
  ELSE IF a.present THEN <<OnlyIn(instDir, f)>>
  ELSE IF b.present THEN <<OnlyIn(repoDir, f)>>
  ELSE <<>>

RECURSIVE DiffDirFrom(_, _, _, _, _, _)
DiffDirFrom(instDir, repoDir, inst, local, at, i) ==
  IF i > Len(Listing) THEN <<>>
  ELSE DiffEntry(instDir, repoDir, inst, local, Listing[i], at)
       \o DiffDirFrom(instDir, repoDir, inst, local, at, i + 1)
\* diff <installedFiles> packages/<folder> ... || echo -n
DiffDir(instDir, repoDir, inst, local, at) ==
  DiffDirFrom(instDir, repoDir, inst, local, at, 1)

\* diff <installedFiles>/<f> packages/<folder>/<f> ... || echo -n : when one
\* of the two is missing, diff complains on stderr and prints nothing.
DiffFiles(instDir, repoDir, inst, local, f, at) ==
  IF inst[f].present /\ local[f].present
  THEN UnifiedDiff(Path(instDir, f), Path(repoDir, f), inst[f], local[f], at)
  ELSE <<>>

\* new RegExp(`^Only in ${dir}: (.*)$`, "gm"): the files matched, and the
\* text with each match replaced by "" (the line stays, empty).
OnlyInMatches(line, dir) == line.kind = "Only in" /\ line.dir = dir
MatchAll(lines, dir) ==
  LET found == SelectSeq(lines, LAMBDA l : OnlyInMatches(l, dir))
  IN [k \in 1..Len(found) |-> found[k].file]
ReplaceMatches(lines, dir) ==
  [k \in 1..Len(lines) |-> IF OnlyInMatches(lines[k], dir) THEN Blank ELSE lines[k]]

\* .replace(new RegExp(tmpFolder, "g"), "package")
ReplaceInDir(dir, tmpFolder) ==
  [k \in 1..Len(dir) |-> IF dir[k] = tmpFolder THEN <<"package">> ELSE dir[k]]
ReplaceInPath(path, tmpFolder) == Path(ReplaceInDir(path.dir, tmpFolder), path.file)
ReplaceTmpFolder(lines, tmpFolder) ==
  [k \in 1..Len(lines) |->
     LET l == lines[k] IN
     IF l.kind = "diff"
     THEN CommandLine(ReplaceInPath(l.from, tmpFolder), ReplaceInPath(l.to, tmpFolder))
     ELSE IF l.kind \in {"---", "+++"}
     THEN [l EXCEPT !.path = ReplaceInPath(l.path, tmpFolder)]
     ELSE IF l.kind = "Only in"
     THEN OnlyIn(ReplaceInDir(l.dir, tmpFolder), l.file)
     ELSE l]

\* /^(\-\-\- "?package[^" ]+?"?)\s+[\d\-\s:\.\+]+$/mg and the same for +++ and
\* packages: the path is a run of characters that are neither a quote nor a
\* space, so a header whose file name has a space in it is not matched.
PathMatches(path, firstWords) ==
  /\ path.dir[1][1] \in firstWords
  /\ Len(path.file) = 1
StripDates(lines) ==
  [k \in 1..Len(lines) |->
     LET l == lines[k] IN
     IF \/ l.kind = "---" /\ PathMatches(l.path, {"package", "packages"})
        \/ l.kind = "+++" /\ PathMatches(l.path, {"packages"})
     THEN [l EXCEPT !.stamp = NoStamp]
     ELSE l]

\* .replace(/\n+(diff --ignore-trailing-space )/g, "\n\n$1"): one empty line
\* before each command line that is not at the start.
BlankUntilCommand(lines, i) ==
  \E j \in (i + 1)..Len(lines) :
    /\ lines[j].kind = "diff"
    /\ \A k \in i..(j - 1) : lines[k] = Blank
RECURSIVE SeparateFrom(_, _)
SeparateFrom(lines, i) ==
  IF i > Len(lines) THEN <<>>
  ELSE IF lines[i] = Blank /\ BlankUntilCommand(lines, i) THEN SeparateFrom(lines, i + 1)
  ELSE IF lines[i].kind = "diff" /\ i > 1 THEN <<Blank, lines[i]>> \o SeparateFrom(lines, i + 1)
  ELSE <<lines[i]>> \o SeparateFrom(lines, i + 1)
SeparateCommands(lines) == SeparateFrom(lines, 1)

\* String.prototype.trim()
RECURSIVE Trim(_)
Trim(lines) ==
  IF lines = <<>> THEN lines
  ELSE IF lines[1] = Blank THEN Trim(Tail(lines))
  ELSE IF lines[Len(lines)] = Blank THEN Trim(SubSeq(lines, 1, Len(lines) - 1))
  ELSE lines

Items(sign, files) == [k \in 1..Len(files) |-> Item(sign, files[k])]
DeletedHeading == Heading("Released package files that no longer exist in the repo:")
AddedHeading == Heading("New repo files that are not yet in the released package:")
StaticHeading == Heading("Static file(s) changed:")

\* The text computeDiff(name, folder) returns, as lines, for the installed
\* package inst (in the temporary folder tmp) and the repository folder local,
\* the files on both sides carrying the time stamp at.
ComputeDiffText(name, folder, tmp, inst, local, at) ==
  LET installedFiles == InstalledFiles(tmp, name)
      raw == DiffDir(installedFiles, PackagesDir(folder), inst, local, at)
      diffReadme == DiffFiles(installedFiles, PackagesDir(folder), inst, local, ReadmeFile, at)
      diffLicense == DiffFiles(installedFiles, PackagesDir(folder), inst, local, LicenseFile, at)
      added == MatchAll(raw, PackagesDir(name))
      noAdded == ReplaceMatches(raw, PackagesDir(name))
      deleted == MatchAll(noAdded, installedFiles)
      noDeleted == ReplaceMatches(noAdded, installedFiles)
      normal == StripDates(ReplaceTmpFolder(noDeleted, TmpFolder(tmp)))
      body == Trim(SeparateCommands(normal))
      withDeleted == IF deleted # <<>>
                     THEN <<DeletedHeading>> \o Items("-", deleted) \o <<Blank>> \o body
                     ELSE body
      withAdded == IF added # <<>>
                   THEN <<AddedHeading>> \o Items("+", added) \o <<Blank>> \o withDeleted
                   ELSE withDeleted
  IN
  IF diffReadme # <<>> \/ diffLicense # <<>>
  THEN <<StaticHeading>>
       \o (IF diffReadme # <<>> THEN <<Item("+", ReadmeFile)>> ELSE <<>>)
       \o (IF diffLicense # <<>> THEN <<Item("+", LicenseFile)>> ELSE <<>>)
       \o <<Blank, Blank>> \o withAdded
  ELSE withAdded

\* ------------------------------------------------- prepareRelease, pure parts
\* head:release-${name}-  (the search matches branch names by prefix)
SearchPrefixOther(name) == <<"prerelease">> \o name
SearchPrefix(name) == <<"release">> \o name
StartsWith(s, prefix) ==
  /\ Len(prefix) <= Len(s)
  /\ \A i \in 1..Len(prefix) : s[i] = prefix[i]

NoPR == [number |-> 0]
ClosedBody == [closed |-> "This pull request is no longer needed. No more diff to release."]
\* The arguments of the pulls.update call that closes the pending PR.
CloseArgsKeepOpen == [body |-> ClosedBody, state |-> "open"]
CloseArgs == [body |-> ClosedBody, state |-> "closed"]

\* The diff as embedded in the body: over the cap, a notice giving the full
\* length followed by the first DiffCap characters.
TruncateAtCap(diff) ==
  IF diff.len >= DiffCap
  THEN [notice |-> TRUE, full |-> diff.len, shown |-> Substring(diff, DiffCap)]
  ELSE [notice |-> FALSE, full |-> diff.len, shown |-> diff]
Truncate(diff) ==
  IF diff.len > DiffCap
  THEN [notice |-> TRUE, full |-> diff.len, shown |-> Substring(diff, DiffCap)]
  ELSE [notice |-> FALSE, full |-> diff.len, shown |-> diff]

\* What the run dumps to the console between DIFF BEGINS and DIFF ENDS: the
\* whole diff when it is over the cap, nothing otherwise.
Logged(diff) == IF diff.len > DiffCap THEN diff ELSE EmptyText

\* packageFile.version = bumpedVersion; btoa(JSON.stringify(packageFile, null, 2))
BumpedPackageFileDropsFields(text) ==
  btoa(<< <<"version", BumpVersion(JSONParse(text)["version"])>> >>)
BumpedPackageFile(text) ==
  LET packageFile == JSONParse(text)
      bumped == [packageFile EXCEPT !["version"] = BumpVersion(packageFile["version"])]
  IN btoa(JSONStringify(bumped, KeysOf(text)))

Title(name, version) == [release |-> name, version |-> version]
BodyWithUid(name, sha, released, version, diff, uid) ==
  [name |-> name, sha |-> sha, released |-> released, version |-> version,
   diff |-> diff, uid |-> uid]
\* The body template; it interpolates name, latestCommitSha,
\* latestReleasedVersion, version and diff (uid is not part of it).
Body(name, sha, released, version, diff, uid) ==
  [name |-> name, sha |-> sha, released |-> released, version |-> version,
   diff |-> diff]

\* A scratch branch name that is the same in every run.
PrRefNoUid(name, uid) == <<"release">> \o name \o <<"0">>
\* release-${name}-${uid}
PrRef(name, uid) == <<"release">> \o name \o <<ToString(uid)>>

CommitBumpedVersionAlways(pendingPR, title, body) == TRUE
CommitBumpedVersion(pendingPR, title, body) ==
  \/ pendingPR = NoPR
  \/ pendingPR.title # title
  \/ pendingPR.body # body

\* --------------------------------------------------------------------- state
VARIABLES
  head,       \* the commit the default branch points to
  refs,       \* the release branches of the remote: branch name -> commit
  prs,        \* the pull requests of the remote, by number
  published,  \* the package in the registry: its version and its tree
  tmpDirs,    \* the temporary install directories that exist
  now,        \* the clock uid is read from: one tick per started run
  faults,     \* the failures injected so far
  run         \* per process instance: the locals of its prepareRelease run

vars == <<head, refs, prs, published, tmpDirs, now, faults, run>>

Procs == {1, 2}
\* Spec runs one process instance at a time.
SeqProcs == {1}

NoCommit == [none |-> TRUE]
\* The blob sha of a file is a hash of its content.
BlobSha(text) == [blob |-> text]

\* What a gateway call answers: it is served, it fails in transit (network,
\* rate limit), or the remote rejects it (404, 409, 422).
Results == {"ok", "error", "rejected"}
\* A failure is injected (b) only while the budget lasts.
Fault(b) ==
  /\ b => faults < MaxFaults
  /\ faults' = IF b THEN faults + 1 ELSE faults
Answer(pre, res) ==
  /\ \/ pre /\ res \in {"ok", "error"}
     \/ ~pre /\ res \in {"rejected", "error"}
  /\ Fault(res = "error")

\* The gateway operations that change the remote.
MutatingOps == {"git.createRef", "repos.createOrUpdateFileContents",
                "git.updateRef", "git.deleteRef", "pulls.update", "pulls.create"}

\* History kept for the claims: prev is the outcome of the run before this
\* one, before is the remote as the run found it.
NoPrev == [outcome |-> "none", dryRun |-> FALSE, prepared |-> FALSE,
           title |-> Title(<<>>, <<>>),
           body |-> Body(<<>>, NoCommit, <<>>, <<>>, Truncate(EmptyText), 0),
           prRef |-> <<>>, calls |-> <<>>,
           before |-> [refs |-> <<>>, prs |-> <<>>],
           folder |-> <<>>, exit |-> "none", diff |-> EmptyText]

\* The locals of a run before it starts.
IdleRun ==
  [pc |-> "idle", dryRun |-> FALSE, name |-> PackageName,
   folder |-> PackageName, uid |-> 0,
   latestCommitSha |-> NoCommit, found |-> 0, pendingPR |-> NoPR,
   tmpFolder |-> 0, exit |-> "none", rimraf |-> "none",
   latestReleasedVersion |-> <<>>, diff |-> EmptyText, logged |-> EmptyText,
   prepared |-> FALSE,
   version |-> <<>>, bumpedVersion |-> <<>>,
   bumpedPackageFileContents |-> btoa(<<>>),
   title |-> NoPrev.title, body |-> NoPrev.body,
   prRef |-> <<>>, commitBumpedVersion |-> FALSE,
   fileSha |-> BlobSha(<<>>), bumpedVersionSha |-> NoCommit,
   defaultBranch |-> "", calls |-> <<>>,
   before |-> [refs |-> <<>>, prs |-> <<>>],
   prev |-> NoPrev]

AtRest(p) == run[p].pc \in {"idle", "done", "failed"}

\* What a run remembers of the run before it, when nothing changed between.
Summary(r) ==
  IF r.pc = "idle" THEN NoPrev
  ELSE [outcome |-> r.pc, dryRun |-> r.dryRun, prepared |-> r.prepared,
        title |-> r.title, body |-> r.body,
        prRef |-> r.prRef, calls |-> r.calls, before |-> r.before,
        folder |-> r.folder, exit |-> r.exit, diff |-> r.diff]

Called(r, op, res) == Append(r.calls, [op |-> op, res |-> res])

InitialHeads == {[n |-> 0, manifest |-> m, tree |-> t] : m \in Manifests, t \in Trees}

Init ==
  /\ head \in InitialHeads
  /\ refs = <<>>
  /\ prs = <<>>
  /\ published = [version |-> V("0", "0", "8"), tree |-> PublishedTree]
  /\ tmpDirs = {}
  /\ now = 0
  /\ faults = 0
  /\ run = [p \in Procs |-> IdleRun]

\* ------------------------------------------------------------- prepareRelease
\* Entry: uid from the clock, latestCommitSha from `git log` on the checkout,
\* which is up to date with the remote; name and folder are the arguments.
StartRunFor(p, dry, name, folder) ==
  /\ AtRest(p)
  /\ now < MaxRuns
  /\ now' = now + 1
  /\ run' = [run EXCEPT ![p] =
       [IdleRun EXCEPT !.pc = "search", !.dryRun = dry, !.uid = now + 1,
                       !.name = name, !.folder = folder,
                       !.latestCommitSha = head,
                       !.before = [refs |-> refs, prs |-> prs],
                       !.prev = Summary(run[p])]]
  /\ UNCHANGED <<head, refs, prs, published, tmpDirs, faults>>

\* packageName defaults to browser-specs, packageFolder to packageName.
StartRun(p, dry) == StartRunFor(p, dry, PackageName, PackageName)

\* The open pull requests whose head branch starts with release-<name>-.
Matching(name) ==
  {i \in 1..Len(prs) : /\ prs[i].state = "open"
                       /\ StartsWith(prs[i].head, SearchPrefix(name))}

\* octokit.search.issuesAndPullRequests; found is items[0], whichever the
\* search lists first.
Search(p, res) ==
  LET r == run[p] IN
  /\ r.pc = "search"
  /\ Answer(TRUE, res)
  /\ \E f \in (IF res = "ok" /\ Matching(r.name) # {} THEN Matching(r.name) ELSE {0}) :
       run' = [run EXCEPT ![p] =
         [r EXCEPT !.calls = Called(r, "search.issuesAndPullRequests", res),
                   !.found = f,
                   !.pc = IF res # "ok" THEN "failed"
                          ELSE IF f # 0 THEN "get" ELSE "computeDiff"]]
  /\ UNCHANGED <<head, refs, prs, published, tmpDirs, now>>

\* octokit.pulls.get of the PR found.
PullsGet(p, res) ==
  LET r == run[p] IN
  /\ r.pc = "get"
  /\ Answer(TRUE, res)
  /\ run' = [run EXCEPT ![p] =
       [r EXCEPT !.calls = Called(r, "pulls.get", res),
                 !.pendingPR = IF res # "ok" THEN NoPR
                               ELSE [number |-> r.found,
                                     title |-> prs[r.found].title,
                                     body |-> prs[r.found].body,
                                     head |-> [ref |-> prs[r.found].head]],
                 !.pc = IF res = "ok" THEN "computeDiff" ELSE "failed"]]
  /\ UNCHANGED <<head, refs, prs, published, tmpDirs, now>>

\* The ways computeDiff ends: it returns, or npm install, the require of the
\* installed manifest or a diff command throws.
DiffExits == {"return", "install", "manifest", "diff"}

\* computeDiff(name, folder), a synchronous call.  The temporary folder is
\* removed (rimraf, failure swallowed) on the path that returns only.
ComputeDiff(p, exit, removed) ==
  LET r == run[p]
      tmp == r.uid
  IN
  /\ r.pc = "computeDiff"
  /\ exit \in DiffExits
  /\ exit # "return" => ~removed
  /\ Fault(exit # "return" \/ ~removed)
  /\ tmpDirs' = IF removed THEN tmpDirs \ {tmp} ELSE tmpDirs \cup {tmp}
  /\ run' = [run EXCEPT ![p] =
       [r EXCEPT !.tmpFolder = tmp,
                 !.exit = exit,
                 !.rimraf = IF exit # "return" THEN "none"
                            ELSE IF removed THEN "removed" ELSE "failed",
                 !.latestReleasedVersion =
                    IF exit \in {"return", "diff"} THEN published.version ELSE <<>>,
                 !.diff = IF exit = "return"
                          THEN DiffOutput(published.tree, r.latestCommitSha.tree)
                          ELSE EmptyText,
                 !.pc = IF exit = "return" THEN "prepare" ELSE "failed"]]
  /\ UNCHANGED <<head, refs, prs, published, now>>

\* computeDiff(name, folder) when nothing throws and the temporary folder is
\* removed, on the files of the published package and of the checkout.
ComputeDiffFiles(p) ==
  LET r == run[p]
      tmp == r.uid
      lines == ComputeDiffText(r.name, r.folder, tmp, published.tree.files,
                               r.latestCommitSha.tree.files, r.uid)
  IN
  /\ r.pc = "computeDiff"
  /\ run' = [run EXCEPT ![p] =
       [r EXCEPT !.tmpFolder = tmp,
                 !.exit = "return",
                 !.rimraf = "removed",
                 !.latestReleasedVersion = published.version,
                 !.diff = Text(lines, Len(lines)),
                 !.pc = "prepare"]]
  /\ UNCHANGED <<head, refs, prs, published, tmpDirs, now, faults>>

\* Where the run goes once the branch is ready: the final if (pendingPR).
AfterBranch(r) ==
  IF r.pendingPR # NoPR
  THEN IF r.pendingPR.title = r.title /\ r.pendingPR.body = r.body
       THEN "done" ELSE "updatePR"
  ELSE "reposGet"

\* From the diff to the first gateway call: the empty diff test, truncation,
\* the version bump, title and body, prRef and commitBumpedVersion.
Prepare(p) ==
  LET r == run[p]
      text == r.latestCommitSha.manifest
      version == JSONParse(text)["version"]
      title == Title(r.name, version)
      body == Body(r.name, r.latestCommitSha, r.latestReleasedVersion, version,
                   Truncate(r.diff), r.uid)
      commit == CommitBumpedVersion(r.pendingPR, title, body)
  IN
  /\ r.pc = "prepare"
  /\ run' = [run EXCEPT ![p] =
       IF r.diff = EmptyText
       THEN [r EXCEPT !.pc = IF r.pendingPR # NoPR /\ ~r.dryRun
                             THEN "closePR" ELSE "done"]
       ELSE [r EXCEPT !.prepared = TRUE,
                      !.logged = Logged(r.diff),
                      !.version = version,
                      !.bumpedVersion = BumpVersion(version),
                      !.bumpedPackageFileContents = BumpedPackageFile(text),
                      !.title = title,
                      !.body = body,
                      !.prRef = PrRef(r.name, r.uid),
                      !.commitBumpedVersion = commit,
                      !.pc = IF commit
                             THEN IF r.dryRun THEN "getContent" ELSE "createRef"
                             ELSE "done"]]
  /\ UNCHANGED <<head, refs, prs, published, tmpDirs, now, faults>>

\* octokit.pulls.update closing the pending PR (reached in a live run only).
ClosePR(p, res) ==
  LET r == run[p]
      n == r.pendingPR.number
  IN
  /\ r.pc = "closePR"
  /\ Answer(TRUE, res)
  /\ prs' = IF res = "ok"
            THEN [prs EXCEPT ![n].body = CloseArgs.body, ![n].state = CloseArgs.state]
            ELSE prs
  /\ run' = [run EXCEPT ![p] =
       [r EXCEPT !.calls = Called(r, "pulls.update", res),
                 !.pc = IF res = "ok" THEN "done" ELSE "failed"]]
  /\ UNCHANGED <<head, refs, published, tmpDirs, now>>

\* The arguments of the createRef call: the scratch branch, the commit that
\* `git log` gave when the run started.
CreateRefArgsAtHead(r) == [ref |-> r.prRef, sha |-> head]
CreateRefArgs(r) == [ref |-> r.prRef, sha |-> r.latestCommitSha]

\* octokit.git.createRef of refs/heads/<prRef> at latestCommitSha (reached in
\* a live run only); the remote rejects a ref that exists.
CreateRef(p, res) ==
  LET r == run[p]
      args == CreateRefArgs(r)
  IN
  /\ r.pc = "createRef"
  /\ Answer(args.ref \notin DOMAIN refs, res)
  /\ refs' = IF res = "ok" THEN refs @@ (args.ref :> args.sha) ELSE refs
  /\ run' = [run EXCEPT ![p] =
       [r EXCEPT !.calls = Called(r, "git.createRef", res),
                 !.pc = IF res = "ok" THEN "getContent" ELSE "failed"]]
  /\ UNCHANGED <<head, prs, published, tmpDirs, now>>

\* octokit.repos.getContent of the manifest, on the default branch.
GetContent(p, res) ==
  LET r == run[p] IN
  /\ r.pc = "getContent"
  /\ Answer(TRUE, res)
  /\ run' = [run EXCEPT ![p] =
       [r EXCEPT !.calls = Called(r, "repos.getContent", res),
                 !.fileSha = IF res = "ok" THEN BlobSha(head.manifest) ELSE r.fileSha,
                 !.pc = IF res = "ok" THEN "createFile" ELSE "failed"]]
  /\ UNCHANGED <<head, refs, prs, published, tmpDirs, now>>

\* octokit.repos.createOrUpdateFileContents on branch prRef, issued in live
\* and dry runs alike.  The remote commits on top of the branch; it rejects a
\* branch that does not exist and a sha that is not the file's on that branch.
CreateFile(p, res) ==
  LET r == run[p]
      pre == /\ r.prRef \in DOMAIN refs
             /\ BlobSha(refs[r.prRef].manifest) = r.fileSha
      commit == [parent |-> refs[r.prRef],
                 manifest |-> atob(r.bumpedPackageFileContents),
                 tree |-> refs[r.prRef].tree,
                 by |-> r.uid]
  IN
  /\ r.pc = "createFile"
  /\ Answer(pre, res)
  /\ refs' = IF res = "ok" THEN [refs EXCEPT ![r.prRef] = commit] ELSE refs
  /\ run' = [run EXCEPT ![p] =
       [r EXCEPT !.calls = Called(r, "repos.createOrUpdateFileContents", res),
                 !.bumpedVersionSha = IF res = "ok" THEN commit ELSE NoCommit,
                 !.pc = IF res # "ok" THEN "failed"
                        ELSE IF r.pendingPR # NoPR /\ ~r.dryRun THEN "updateRef"
                        ELSE AfterBranch(r)]]
  /\ UNCHANGED <<head, prs, published, tmpDirs, now>>

\* The arguments of the updateRef call: the PR branch, the bump commit.
UpdateRefArgsToHead(r) == [ref |-> r.pendingPR.head.ref, sha |-> r.latestCommitSha]
UpdateRefArgs(r) == [ref |-> r.pendingPR.head.ref, sha |-> r.bumpedVersionSha]

\* An updateRef that leaves the PR branch where it was.
UpdateRefSkipped(p, res) ==
  LET r == run[p] IN
  /\ r.pc = "updateRef"
  /\ Answer(UpdateRefArgs(r).ref \in DOMAIN refs, res)
  /\ run' = [run EXCEPT ![p] =
       [r EXCEPT !.calls = Called(r, "git.updateRef", res),
                 !.pc = IF res = "ok" THEN "deleteRef" ELSE "failed"]]
  /\ UNCHANGED <<head, refs, prs, published, tmpDirs, now>>

\* octokit.git.updateRef: force the PR branch to the bump commit (live only).
UpdateRef(p, res) ==
  LET r == run[p]
      ref == UpdateRefArgs(r).ref
  IN
  /\ r.pc = "updateRef"
  /\ Answer(ref \in DOMAIN refs, res)
  /\ refs' = IF res = "ok" THEN [refs EXCEPT ![ref] = UpdateRefArgs(r).sha] ELSE refs
  /\ run' = [run EXCEPT ![p] =
       [r EXCEPT !.calls = Called(r, "git.updateRef", res),
                 !.pc = IF res = "ok" THEN "deleteRef" ELSE "failed"]]
  /\ UNCHANGED <<head, prs, published, tmpDirs, now>>

\* octokit.git.deleteRef of the scratch branch prRef (live only).
DeleteRef(p, res) ==
  LET r == run[p] IN
  /\ r.pc = "deleteRef"
  /\ Answer(r.prRef \in DOMAIN refs, res)
  /\ refs' = IF res = "ok"
             THEN [b \in DOMAIN refs \ {r.prRef} |-> refs[b]]
             ELSE refs
  /\ run' = [run EXCEPT ![p] =
       [r EXCEPT !.calls = Called(r, "git.deleteRef", res),
                 !.pc = IF res = "ok" THEN AfterBranch(r) ELSE "failed"]]
  /\ UNCHANGED <<head, prs, published, tmpDirs, now>>

\* octokit.pulls.update of title and body, issued in live and dry runs alike.
UpdatePR(p, res) ==
  LET r == run[p]
      n == r.pendingPR.number
  IN
  /\ r.pc = "updatePR"
  /\ Answer(TRUE, res)
  /\ prs' = IF res = "ok"
            THEN [prs EXCEPT ![n].title = r.title, ![n].body = r.body]
            ELSE prs
  /\ run' = [run EXCEPT ![p] =
       [r EXCEPT !.calls = Called(r, "pulls.update", res),
                 !.pc = IF res = "ok" THEN "done" ELSE "failed"]]
  /\ UNCHANGED <<head, refs, published, tmpDirs, now>>

\* A repos.get whose failure is caught: the run goes on to pulls.create.
ReposGetSwallowsError(p, res) ==
  LET r == run[p] IN
  /\ r.pc = "reposGet"
  /\ Answer(TRUE, res)
  /\ run' = [run EXCEPT ![p] =
       [r EXCEPT !.calls = Called(r, "repos.get", res),
                 !.defaultBranch = "main",
                 !.pc = "pullsCreate"]]
  /\ UNCHANGED <<head, refs, prs, published, tmpDirs, now>>

\* octokit.repos.get, for the default branch.
ReposGet(p, res) ==
  LET r == run[p] IN
  /\ r.pc = "reposGet"
  /\ Answer(TRUE, res)
  /\ run' = [run EXCEPT ![p] =
       [r EXCEPT !.calls = Called(r, "repos.get", res),
                 !.defaultBranch = IF res = "ok" THEN "main" ELSE "",
                 !.pc = IF res = "ok" THEN "pullsCreate" ELSE "failed"]]
  /\ UNCHANGED <<head, refs, prs, published, tmpDirs, now>>

\* octokit.pulls.create with head prRef, issued in live and dry runs alike.
\* The remote rejects a head that does not exist, a head with no commit on
\* top of the base, and a head that has an open PR already.
PullsCreate(p, res) ==
  LET r == run[p]
      pre == /\ r.prRef \in DOMAIN refs
             /\ refs[r.prRef] # head
             /\ \A i \in 1..Len(prs) : ~(prs[i].state = "open" /\ prs[i].head = r.prRef)
  IN
  /\ r.pc = "pullsCreate"
  /\ Answer(pre, res)
  /\ prs' = IF res = "ok"
            THEN Append(prs, [state |-> "open", title |-> r.title, body |-> r.body,
                              head |-> r.prRef])
            ELSE prs
  /\ run' = [run EXCEPT ![p] =
       [r EXCEPT !.calls = Called(r, "pulls.create", res),
                 !.pc = IF res = "ok" THEN "done" ELSE "failed"]]
  /\ UNCHANGED <<head, refs, published, tmpDirs, now>>

\* ------------------------------------------------------------ the environment
\* Between runs the repository, the registry and the PR change under people's
\* hands; the run that follows is then not a repetition of the one before.
Touch == run' = [q \in Procs |-> IdleRun]
Quiet == \A q \in Procs : AtRest(q)

\* A commit lands on the default branch.
EnvPush(m, t) ==
  /\ Quiet
  /\ head.n < MaxPush
  /\ head' = [n |-> head.n + 1, manifest |-> m, tree |-> t]
  /\ Touch
  /\ UNCHANGED <<refs, prs, published, tmpDirs, now, faults>>

\* The package is released from the default branch.
EnvPublish ==
  LET next == [version |-> JSONParse(head.manifest)["version"], tree |-> head.tree] IN
  /\ Quiet
  /\ next # published
  /\ published' = next
  /\ Touch
  /\ UNCHANGED <<head, refs, prs, tmpDirs, now, faults>>

\* Somebody merges or closes an open PR.
EnvClosePR(i) ==
  /\ Quiet
  /\ i \in 1..Len(prs)
  /\ prs[i].state = "open"
  /\ prs' = [prs EXCEPT ![i].state = "closed"]
  /\ Touch
  /\ UNCHANGED <<head, refs, published, tmpDirs, now, faults>>

\* A commit lands on the default branch while a run is under way.
PushDuringRun(m, t) ==
  /\ ~Quiet
  /\ head.n < MaxPush
  /\ head' = [n |-> head.n + 1, manifest |-> m, tree |-> t]
  /\ UNCHANGED <<refs, prs, published, tmpDirs, now, faults, run>>

\* -------------------------------------------------------------- specification
\* The steps of a run once it has started.
Continue(p) ==
  \/ \E res \in Results : Search(p, res)
  \/ \E res \in Results : PullsGet(p, res)
  \/ \E exit \in DiffExits, removed \in BOOLEAN : ComputeDiff(p, exit, removed)
  \/ Prepare(p)
  \/ \E res \in Results : ClosePR(p, res)
  \/ \E res \in Results : CreateRef(p, res)
  \/ \E res \in Results : GetContent(p, res)
  \/ \E res \in Results : CreateFile(p, res)
  \/ \E res \in Results : UpdateRef(p, res)
  \/ \E res \in Results : DeleteRef(p, res)
  \/ \E res \in Results : UpdatePR(p, res)
  \/ \E res \in Results : ReposGet(p, res)
  \/ \E res \in Results : PullsCreate(p, res)

Step(p) ==
  \/ \E dry \in BOOLEAN : StartRun(p, dry)
  \/ Continue(p)

Env ==
  \/ \E m \in Manifests, t \in Trees : EnvPush(m, t)
  \/ EnvPublish
  \/ \E i \in 1..Len(prs) : EnvClosePR(i)

Next == (\E p \in SeqProcs : Step(p)) \/ Env

Spec == Init /\ [][Next]_vars

\* ---------------------------------------------- the bump, over all versions
\* SpecBump: one live run, no failure injected, on a repository whose manifest
\* carries any string of at most MaxVerLen characters as its version, and
\* whose tree differs from the published one.
VersionAlphabet == {"0", "9", ".", "x"}
VersionStrings == UNION {[1..k -> VersionAlphabet] : k \in 0..MaxVerLen}
ChangedTree == CHOOSE t \in Trees : t # PublishedTree

InitBump ==
  /\ head \in {[n |-> 0, manifest |-> ManifestOf(PackageName, v), tree |-> ChangedTree] :
                 v \in VersionStrings}
  /\ refs = <<>>
  /\ prs = <<>>
  /\ published = [version |-> V("0", "0", "8"), tree |-> PublishedTree]
  /\ tmpDirs = {}
  /\ now = MaxRuns - 1
  /\ faults = MaxFaults
  /\ run = [p \in Procs |-> IdleRun]

NextBump ==
  \E p \in SeqProcs :
    \/ StartRun(p, FALSE)
    \/ \E res \in Results : Search(p, res)
    \/ ComputeDiff(p, "return", TRUE)
    \/ Prepare(p)
    \/ \E res \in Results : CreateRef(p, res)
    \/ \E res \in Results : GetContent(p, res)
    \/ \E res \in Results : CreateFile(p, res)
    \/ \E res \in Results : ReposGet(p, res)
    \/ \E res \in Results : PullsCreate(p, res)

SpecBump == InitBump /\ [][NextBump]_vars

\* --------------------------------------------------------------------- claims
\* The mutating gateway calls a run has issued, in order, and their names.
MutatingCalls(r) == SelectSeq(r.calls, LAMBDA c : c.op \in MutatingOps)
OpsOf(calls) == [i \in 1..Len(calls) |-> calls[i].op]
OpenPRs(name) ==
  {i \in 1..Len(prs) : /\ prs[i].state = "open"
                       /\ Len(prs[i].head) > Len(name)
                       /\ prs[i].head[1] = "release"
                       /\ \A k \in 1..Len(name) : prs[i].head[k + 1] = name[k]}
HasPR(r) == r.pendingPR # NoPR
SameTitleBody(r) == r.pendingPR.title = r.title /\ r.pendingPR.body = r.body
LiveDone(r) == r.pc = "done" /\ ~r.dryRun

C2_SinglePR ==
  /\ Cardinality(OpenPRs(PackageName)) <= 1
  /\ \A p \in Procs :
       LET r == run[p] IN
       (\E i \in 1..Len(r.calls) : r.calls[i].op = "pulls.create") =>
         /\ r.calls[1] = [op |-> "search.issuesAndPullRequests", res |-> "ok"]
         /\ r.found = 0
         /\ ~HasPR(r)
\* A live run found the open PR, rebased it and completed: one PR, still.
C2_Witness ==
  /\ Cardinality(OpenPRs(PackageName)) = 1
  /\ Len(prs) = 1
  /\ \E p \in Procs :
       LET r == run[p] IN
       /\ LiveDone(r) /\ HasPR(r)
       /\ \E i \in 1..Len(r.calls) : r.calls[i].op = "git.updateRef"

\* C3 (dry-run safety), as claimed: a dry run issues no mutating gateway
\* call, and the remote is as it was when the run started.
C3_DryRunIssuesNoMutatingCall ==
  \A p \in Procs :
    LET r == run[p] IN
    (r.dryRun /\ r.pc # "idle") =>
      /\ MutatingCalls(r) = <<>>
      /\ refs = r.before.refs
      /\ prs = r.before.prs

\* C4 (dry-run equivalence), as claimed: a dry run does not abort on a step
\* that depends on a mutation it suppressed; no call of a dry run is rejected
\* by the remote, so that a dry run fails only where a failure was injected,
\* as a live run does.
C4_DryRunCompletesLikeLive ==
  \A p \in Procs :
    LET r == run[p] IN
    r.dryRun => \A i \in 1..Len(r.calls) : r.calls[i].res # "rejected"

\* C5 (no diff closes the PR): a completed live run that found a pending PR
\* and an empty diff has closed that PR, with the explanatory body, by its one
\* mutating call; no ref was created, moved or deleted and no PR was created.
C5_NoDiffClosesPR ==
  \A p \in Procs :
    LET r == run[p] IN
    (LiveDone(r) /\ HasPR(r) /\ r.diff = EmptyText) =>
      /\ prs[r.pendingPR.number].state = "closed"
      /\ prs[r.pendingPR.number].body = ClosedBody
      /\ OpsOf(MutatingCalls(r)) = <<"pulls.update">>
      /\ refs = r.before.refs
      /\ Len(prs) = Len(r.before.prs)
C5_Witness ==
  \E p \in Procs :
    LET r == run[p] IN
    /\ LiveDone(r) /\ HasPR(r) /\ r.diff = EmptyText
    /\ r.before.prs[r.pendingPR.number].state = "open"

\* The decision table of the specification, as sequences of mutating calls.
TableRow(hasPR, empty, same) ==
  IF empty THEN (IF hasPR THEN <<"pulls.update">> ELSE <<>>)
  ELSE IF ~hasPR
       THEN <<"git.createRef", "repos.createOrUpdateFileContents", "pulls.create">>
  ELSE IF same THEN <<>>
  ELSE <<"git.createRef", "repos.createOrUpdateFileContents", "git.updateRef",
         "git.deleteRef", "pulls.update">>

\* C6 (decision table): the mutating calls of a completed live run are the
\* row of the table selected by (a pending PR was found, the diff is empty,
\* title and body equal the PR's), all of them served.
C6_DecisionTable ==
  \A p \in Procs :
    LET r == run[p] IN
    LiveDone(r) =>
      /\ OpsOf(MutatingCalls(r)) =
           TableRow(HasPR(r), r.diff = EmptyText, HasPR(r) /\ SameTitleBody(r))
      /\ \A i \in 1..Len(r.calls) : r.calls[i].res = "ok"
\* The row that opens a PR.
C6_Witness ==
  \E p \in Procs :
    LET r == run[p] IN
    /\ LiveDone(r) /\ ~HasPR(r) /\ r.diff # EmptyText
    /\ Len(prs) = Len(r.before.prs) + 1

\* C7 (rebase): a completed live run that found a pending PR whose title or
\* body differ leaves that PR open under its number and head branch, the
\* branch on the bump commit this run created on top of HEAD, no PR added and
\* no scratch branch left; and in any run deleteRef is issued only after
\* updateRef was served.
C7_Rebase ==
  \A p \in Procs :
    LET r == run[p] IN
    /\ (LiveDone(r) /\ HasPR(r) /\ r.diff # EmptyText /\ ~SameTitleBody(r)) =>
         /\ prs[r.pendingPR.number].state = "open"
         /\ prs[r.pendingPR.number].head = r.pendingPR.head.ref
         /\ Len(prs) = Len(r.before.prs)
         /\ refs[r.pendingPR.head.ref] = r.bumpedVersionSha
         /\ r.bumpedVersionSha.by = r.uid
         /\ r.bumpedVersionSha.parent = r.latestCommitSha
         /\ r.latestCommitSha = head
         /\ r.prRef \notin DOMAIN refs
    /\ \A i \in 1..Len(r.calls) :
         r.calls[i].op = "git.deleteRef" =>
           \E j \in 1..(i - 1) : r.calls[j] = [op |-> "git.updateRef", res |-> "ok"]
C7_Witness ==
  \E p \in Procs :
    LET r == run[p] IN
    /\ LiveDone(r) /\ HasPR(r) /\ r.diff # EmptyText /\ ~SameTitleBody(r)
    /\ r.before.refs[r.pendingPR.head.ref] # refs[r.pendingPR.head.ref]

\* A live run is never rejected by the remote in Spec (used to read C4).
LiveNeverRejected ==
  \A p \in Procs :
    LET r == run[p] IN
    ~r.dryRun => \A i \in 1..Len(r.calls) : r.calls[i].res # "rejected"

\* A version of the form a.b.c: three components, each a non-empty string of
\* decimal digits.
AllDigits(part) == Len(part) > 0 /\ \A i \in 1..Len(part) : IsDigit(part[i])
WellFormed(version) ==
  /\ Len(Split(version)) = 3
  /\ \A k \in 1..3 : AllDigits(Split(version)[k])
\* The integer a string of decimal digits denotes.
RECURSIVE DecimalValue(_)
DecimalValue(part) ==
  IF part = <<>> THEN 0
  ELSE 10 * DecimalValue(SubSeq(part, 1, Len(part) - 1)) + DigitVal(part[Len(part)])
LocalVersion(r) == JSONParse(r.latestCommitSha.manifest)["version"]

\* C8 (patch-only bump): for a manifest version a.b.c the bumped version is
\* a.b.(c+1), and the manifest the run commits has the members of the current
\* manifest, in their order, with their values, but for version, which is the
\* bumped version.
C8_PatchOnlyBump ==
  \A p \in Procs :
    LET r == run[p]
        old == r.latestCommitSha.manifest
        new == r.bumpedVersionSha.manifest
    IN
    (r.prepared /\ WellFormed(r.version)) =>
      /\ WellFormed(r.bumpedVersion)
      /\ \A k \in 1..3 :
           DecimalValue(Split(r.bumpedVersion)[k]) =
             DecimalValue(Split(r.version)[k]) + (IF k = 3 THEN 1 ELSE 0)
      /\ r.bumpedVersionSha # NoCommit =>
           /\ KeysOf(new) = KeysOf(old)
           /\ \A i \in 1..Len(old) :
                new[i][2] = IF old[i][1] = "version" THEN r.bumpedVersion ELSE old[i][2]
\* 0.0.9 was bumped to 0.0.10 and committed.
C8_Witness ==
  \E p \in Procs :
    LET r == run[p] IN
    /\ r.version = V("0", "0", "9")
    /\ r.bumpedVersion = <<"0", ".", "0", ".", "1", "0">>
    /\ r.bumpedVersionSha # NoCommit
    /\ refs[r.prRef] = r.bumpedVersionSha

\* C9 (malformed version is fatal), as claimed: a run on a manifest whose
\* version is not three dotted integers issues no mutating call, derives no
\* version, title or body from it, and does not complete.
C9_MalformedVersionIsFatal ==
  \A p \in Procs :
    LET r == run[p] IN
    (r.pc \notin {"idle", "search", "get", "computeDiff", "prepare"}
       /\ r.diff # EmptyText
       /\ ~WellFormed(LocalVersion(r))) =>
      /\ r.pc = "failed"
      /\ ~r.prepared
      /\ MutatingCalls(r) = <<>>

\* C10 (temporary directory cleanup), as claimed: once computeDiff has ended,
\* by return or by throw, its temporary directory is gone, or its removal was
\* attempted and failed.
C10_TmpDirRemovedOnEveryExit ==
  \A p \in Procs :
    LET r == run[p] IN
    r.exit # "none" => (r.tmpFolder \notin tmpDirs \/ r.rimraf = "failed")

\* ------------------------------------------------- re-running after an abort
\* SpecRetry: runs one after the other, nothing else changing, on a repository
\* that is new or has been through a completed live run (its PR is open, on
\* the commit that run saw) followed or not by a push.
OldHead == [n |-> 0, manifest |-> ManifestOf(PackageName, V("0", "0", "9")),
            tree |-> ChangedTree]
OldPublished == [version |-> V("0", "0", "8"), tree |-> PublishedTree]
\* What the completed live run with uid 0 left on the remote.
OldBranch ==
  [parent |-> OldHead, manifest |-> atob(BumpedPackageFile(OldHead.manifest)),
   tree |-> OldHead.tree, by |-> 0]
OldPR ==
  [state |-> "open",
   title |-> Title(PackageName, V("0", "0", "9")),
   body |-> Body(PackageName, OldHead, OldPublished.version, V("0", "0", "9"),
                 Truncate(DiffOutput(OldPublished.tree, OldHead.tree)), 0),
   head |-> PrRef(PackageName, 0)]

InitRetry ==
  /\ head \in {OldHead} \cup {[n |-> 1, manifest |-> m, tree |-> t] :
                                 m \in Manifests, t \in Trees}
  /\ \E withPR \in BOOLEAN :
       /\ refs = IF withPR THEN (PrRef(PackageName, 0) :> OldBranch) ELSE <<>>
       /\ prs = IF withPR THEN <<OldPR>> ELSE <<>>
  /\ published = OldPublished
  /\ tmpDirs = {}
  /\ now = 0
  /\ faults = 0
  /\ run = [p \in Procs |-> IdleRun]

NextRetry == \E p \in SeqProcs : Step(p)

SpecRetry == InitRetry /\ [][NextRetry]_vars

\* ------------------------------------------------------ diffs around the cap
\* SpecTrunc: runs with no failure injected on a repository whose tree makes
\* the diff one character short of the cap, as long as the cap, one character
\* over it, and twice as long.
LongTrees ==
  {[id |-> 1, chars |-> c] :
     c \in {DiffCap - PublishedTree.chars - 1, DiffCap - PublishedTree.chars,
            DiffCap - PublishedTree.chars + 1, DiffCap + DiffCap - PublishedTree.chars}}

InitTrunc ==
  /\ head \in {[n |-> 0, manifest |-> m, tree |-> t] : m \in Manifests, t \in LongTrees}
  /\ refs = <<>>
  /\ prs = <<>>
  /\ published = OldPublished
  /\ tmpDirs = {}
  /\ now = 0
  /\ faults = MaxFaults
  /\ run = [p \in Procs |-> IdleRun]

NextTrunc ==
  \E p \in SeqProcs :
    \/ \E dry \in BOOLEAN : StartRun(p, dry)
    \/ \E res \in Results : Search(p, res)
    \/ \E res \in Results : PullsGet(p, res)
    \/ ComputeDiff(p, "return", TRUE)
    \/ Prepare(p)
    \/ \E res \in Results : CreateRef(p, res)
    \/ \E res \in Results : GetContent(p, res)
    \/ \E res \in Results : CreateFile(p, res)
    \/ \E res \in Results : ReposGet(p, res)
    \/ \E res \in Results : PullsCreate(p, res)

SpecTrunc == InitTrunc /\ [][NextTrunc]_vars

\* ------------------------------------------------- pushes while a run is on
\* SpecRace: as Spec, and commits land on the default branch between any two
\* steps of a run.
NextRace ==
  \/ Next
  \/ \E m \in Manifests, t \in Trees : PushDuringRun(m, t)

SpecRace == Init /\ [][NextRace]_vars

\* ------------------------------------------------------------- two packages
\* SpecIso: as Spec, and each run is for one of two packages of the
\* repository, the name of one being a dash-delimited prefix of the other's.
IsoNames == {<<"web">>, <<"web", "specs">>}

NextIso ==
  \/ \E p \in SeqProcs :
       \/ \E dry \in BOOLEAN, name \in IsoNames : StartRunFor(p, dry, name, name)
       \/ Continue(p)
  \/ Env

SpecIso == Init /\ [][NextIso]_vars

\* ------------------------------------------------ two process instances
\* SpecConc: live runs of two process instances for the same package, their
\* steps interleaved in any order, no failure injected, on a repository with
\* a diff to release and no pre-release PR.
InitConc ==
  /\ head \in {[n |-> 0, manifest |-> m, tree |-> ChangedTree] : m \in Manifests}
  /\ refs = <<>>
  /\ prs = <<>>
  /\ published = OldPublished
  /\ tmpDirs = {}
  /\ now = 0
  /\ faults = MaxFaults
  /\ run = [p \in Procs |-> IdleRun]

NextConc ==
  \E p \in Procs :
    \/ StartRun(p, FALSE)
    \/ \E res \in Results : Search(p, res)
    \/ \E res \in Results : PullsGet(p, res)
    \/ ComputeDiff(p, "return", TRUE)
    \/ Prepare(p)
    \/ \E res \in Results : CreateRef(p, res)
    \/ \E res \in Results : GetContent(p, res)
    \/ \E res \in Results : CreateFile(p, res)
    \/ \E res \in Results : ReposGet(p, res)
    \/ \E res \in Results : PullsCreate(p, res)

SpecConc == InitConc /\ [][NextConc]_vars

\* ------------------------------------------------------- the diff, by files
\* SpecDiff: live runs one after the other, no failure injected and nothing
\* else changing, for a package whose folder has the name of the package or
\* another one, over published packages and checkouts that differ by files
\* missing on either side, changed texts and trailing spaces.
OtherFolder == <<"browser", "specs", "next">>
Folders == {PackageName, OtherFolder}
Dir(license, readme, spaced, index, manifest) ==
  (LicenseFile :> license) @@ (ReadmeFile :> readme) @@ (SpacedFile :> spaced)
  @@ (IndexFile :> index) @@ (ManifestFile :> manifest)
\* The installed manifest is never the one of the repository: npm install
\* adds properties to it.
PublishedDirs ==
  {Dir(File(<<"x">>), readme, spaced, index, File(<<"x", "_">>)) :
     readme \in {Absent, File(<<"x">>)},
     spaced \in {Absent, File(<<"x">>)},
     index \in {Absent, File(<<"x">>)}}
RepoDirs ==
  {Dir(license, readme, spaced, index, File(<<"x">>)) :
     license \in {File(<<"x">>), File(<<"y">>)},
     readme \in {Absent, File(<<"x">>), File(<<"y">>)},
     spaced \in {Absent, File(<<"x">>), File(<<"y">>)},
     index \in {Absent, File(<<"x">>), File(<<"x", " ">>), File(<<"y">>)}}

InitDiff ==
  /\ head \in {[n |-> 0, manifest |-> ManifestOf(PackageName, V("0", "0", "9")),
                 tree |-> [files |-> d]] : d \in RepoDirs}
  /\ refs = <<>>
  /\ prs = <<>>
  /\ published \in {[version |-> V("0", "0", "8"), tree |-> [files |-> d]] :
                      d \in PublishedDirs}
  /\ tmpDirs = {}
  /\ now = 0
  /\ faults = MaxFaults
  /\ run = [p \in Procs |-> IdleRun]

NextDiff ==
  \E p \in SeqProcs :
    \/ \E folder \in Folders : StartRunFor(p, FALSE, PackageName, folder)
    \/ \E res \in Results : Search(p, res)
    \/ \E res \in Results : PullsGet(p, res)
    \/ ComputeDiffFiles(p)
    \/ Prepare(p)
    \/ \E res \in Results : CreateRef(p, res)
    \/ \E res \in Results : GetContent(p, res)
    \/ \E res \in Results : CreateFile(p, res)
    \/ \E res \in Results : UpdateRef(p, res)
    \/ \E res \in Results : DeleteRef(p, res)
    \/ \E res \in Results : UpdatePR(p, res)
    \/ \E res \in Results : ReposGet(p, res)
    \/ \E res \in Results : PullsCreate(p, res)

SpecDiff == InitDiff /\ [][NextDiff]_vars

\* ---------------------------------------------------------------------- C11
Failed(c) == c.res # "ok"

\* C11: a gateway call that fails is the last call of its run and leaves the
\* run in the fatal-error state, never in the completed state; no operation
\* is issued twice in a run (no retry).
C11_FailWhole ==
  \A p \in Procs :
    LET r == run[p]
        n == Len(r.calls)
    IN
    /\ \A i \in 1..n : Failed(r.calls[i]) => i = n /\ r.pc = "failed"
    /\ r.pc = "done" => \A i \in 1..n : ~Failed(r.calls[i])
    /\ \A i, j \in 1..n : i # j => r.calls[i].op # r.calls[j].op

\* A live run that had created its branch and commit when updateRef failed.
C11_Witness ==
  \E p \in Procs :
    LET r == run[p]
        n == Len(r.calls)
    IN
    /\ r.pc = "failed" /\ ~r.dryRun
    /\ n >= 5
    /\ r.calls[n] = [op |-> "git.updateRef", res |-> "error"]

\* ---------------------------------------------------------------------- C12
\* The run before this one was live and a gateway call of it failed.
AfterAbort(r) ==
  /\ r.prev.outcome = "failed" /\ ~r.prev.dryRun
  /\ Len(r.prev.calls) > 0
  /\ Failed(r.prev.calls[Len(r.prev.calls)])

\* The bump commit a run for the commit sha makes.
IsBumpOn(commit, sha) ==
  /\ commit # NoCommit
  /\ "parent" \in DOMAIN commit
  /\ commit.parent = sha
  /\ commit.tree = sha.tree
  /\ JSONParse(commit.manifest)["version"] = BumpVersion(JSONParse(sha.manifest)["version"])

\* C12: a live run that follows an aborted live run, nothing else having
\* changed, is not refused anything by the remote; when it completes, the
\* open PRs are what one successful run leaves (none if there is no diff,
\* else exactly one, with the fresh title and body, its branch on the bump
\* commit on top of HEAD), and the aborted run has left nothing but its
\* scratch branch.
C12_SafeRetrigger ==
  \A p \in Procs :
    LET r == run[p] IN
    (AfterAbort(r) /\ ~r.dryRun) =>
      /\ \A i \in 1..Len(r.calls) : r.calls[i].res # "rejected"
      /\ r.pc = "done" =>
           /\ ~r.prepared => OpenPRs(r.name) = {}
           /\ r.prepared =>
                /\ Cardinality(OpenPRs(r.name)) = 1
                /\ \A i \in OpenPRs(r.name) :
                     /\ prs[i].title = Title(r.name, LocalVersion(r))
                     /\ prs[i].body = r.body
                     /\ prs[i].head \in DOMAIN refs
                     /\ IsBumpOn(refs[prs[i].head], head)
           /\ Len(prs) <= Len(r.prev.before.prs) + 1
           /\ \A b \in DOMAIN refs :
                \/ b \in DOMAIN r.prev.before.refs
                \/ b = r.prev.prRef
                \/ \E i \in OpenPRs(r.name) : prs[i].head = b

\* The aborted run had moved the PR branch when deleteRef failed; the run
\* after it completed, and the scratch branch of the aborted run remains.
C12_Witness ==
  \E p \in Procs :
    LET r == run[p]
        n == Len(r.prev.calls)
    IN
    /\ AfterAbort(r) /\ LiveDone(r) /\ r.prepared
    /\ r.prev.calls[n].op = "git.deleteRef"
    /\ r.prev.prRef \in DOMAIN refs
    /\ r.prev.prRef \notin DOMAIN r.prev.before.refs

\* ---------------------------------------------------------------------- C14
\* C14: the body of a prepared run embeds a diff longer than DiffCap as a
\* notice and its first DiffCap characters, the whole diff being logged; it
\* embeds a diff of at most DiffCap characters as it is, with no notice.
C14_Truncation ==
  \A p \in Procs :
    LET r == run[p]
        embedded == r.body.diff
    IN
    r.prepared =>
      /\ r.diff.len > DiffCap =>
           /\ embedded.notice
           /\ embedded.full = r.diff.len
           /\ embedded.shown.src = r.diff.src
           /\ embedded.shown.len = DiffCap
           /\ r.logged = r.diff
      /\ r.diff.len <= DiffCap =>
           /\ ~embedded.notice
           /\ embedded.shown = r.diff

\* A PR was created with the diff one character over the cap.
C14_Witness ==
  \E p \in Procs :
    LET r == run[p] IN
    /\ LiveDone(r) /\ r.prepared
    /\ r.diff.len = DiffCap + 1
    /\ \E i \in OpenPRs(r.name) : prs[i].body = r.body /\ prs[i].body.diff.notice

\* ---------------------------------------------------------------------- C17
\* The answer the run got to its createOrUpdateFileContents call, if issued.
CreateFileAnswers(r) ==
  {r.calls[i].res : i \in {j \in 1..Len(r.calls) :
                              r.calls[j].op = "repos.createOrUpdateFileContents"}}

\* C17: when the manifest read by getContent is not the manifest of the
\* commit the run started from, the write is not served and the run is
\* aborted; the bump commit of a run is made on a manifest that carries the
\* version the run read and whose hash is the one the run sent.
C17_NoLostUpdate ==
  \A p \in Procs :
    LET r == run[p] IN
    /\ (/\ CreateFileAnswers(r) # {}
        /\ r.fileSha # BlobSha(r.latestCommitSha.manifest))
         => "ok" \notin CreateFileAnswers(r) /\ r.pc = "failed"
    /\ r.bumpedVersionSha # NoCommit =>
         /\ JSONParse(r.bumpedVersionSha.parent.manifest)["version"] = r.version
         /\ BlobSha(r.bumpedVersionSha.parent.manifest) = r.fileSha
         /\ JSONParse(r.bumpedVersionSha.manifest)["version"] = r.bumpedVersion

\* A push changed the manifest after a live run took its snapshot; the run
\* created its branch, read the new manifest, and its write was rejected.
C17_Witness ==
  \E p \in Procs :
    LET r == run[p] IN
    /\ ~r.dryRun /\ r.pc = "failed"
    /\ r.fileSha # BlobSha(r.latestCommitSha.manifest)
    /\ r.fileSha = BlobSha(head.manifest)
    /\ CreateFileAnswers(r) = {"rejected"}
    /\ r.prRef \in DOMAIN refs

\* ---------------------------------------------------------------------- C18
\* The title and body a run computes for the default branch and the registry
\* as they are now.
FreshVersion == JSONParse(head.manifest)["version"]
FreshTitle == Title(PackageName, FreshVersion)
FreshBody ==
  Body(PackageName, head, published.version, FreshVersion,
       Truncate(DiffOutput(published.tree, head.tree)), 0)

\* C18: an open pre-release PR whose title and body are the ones freshly
\* computed for HEAD has its head branch on a bump commit whose parent is
\* HEAD.
C18_BodyBranchConsistency ==
  \A i \in OpenPRs(PackageName) :
    (prs[i].title = FreshTitle /\ prs[i].body = FreshBody) =>
      /\ prs[i].head \in DOMAIN refs
      /\ IsBumpOn(refs[prs[i].head], head)

\* A pending PR was rebased by a live run: its branch was moved, then its
\* title and body were updated to the fresh ones.
C18_Witness ==
  \E p \in Procs, i \in OpenPRs(PackageName) :
    LET r == run[p] IN
    /\ LiveDone(r) /\ r.pendingPR # NoPR /\ r.pendingPR.number = i
    /\ [op |-> "git.updateRef", res |-> "ok"] \in {r.calls[k] : k \in 1..Len(r.calls)}
    /\ [op |-> "pulls.update", res |-> "ok"] \in {r.calls[k] : k \in 1..Len(r.calls)}
    /\ prs[i].title = FreshTitle /\ prs[i].body = FreshBody

\* ---------------------------------------------------------------------- C19
\* The branch was made by a run for the package name: it is
\* release-<name>-<uid>, the uid being one word.
BranchOf(name, ref) ==
  /\ Len(ref) = Len(name) + 2
  /\ ref[1] = "release"
  /\ \A k \in 1..Len(name) : ref[k + 1] = name[k]

\* C19: the pending PR a run holds has a head branch that was created for
\* the package the run is for.
C19_CrossPackageIsolation ==
  \A p \in Procs :
    LET r == run[p] IN
    r.pendingPR # NoPR => BranchOf(r.name, r.pendingPR.head.ref)

\* ---------------------------------------------------------------------- C20
\* C20: at most one pre-release PR of the package is open, whatever the
\* interleaving of the two process instances.
C20_InterleavedRunsOnePR == Cardinality(OpenPRs(PackageName)) <= 1

\* ------------------------------------------------------------ C13, C15, C16
\* A run whose computeDiff has returned; its result as lines, and the two
\* sides that were compared.
Returned(r) == r.exit = "return"
LinesOf(r) == r.diff.src
InstalledOf(r) == published.tree.files
CheckoutOf(r) == r.latestCommitSha.tree.files
Names == {Listing[k] : k \in 1..Len(Listing)}

\* The file is an item (with the sign) of the section under the heading.
ListedUnder(lines, heading, sign, f) ==
  \E h, k \in 1..Len(lines) :
    /\ h < k
    /\ lines[h] = heading
    /\ lines[k] = Item(sign, f)
    /\ \A j \in (h + 1)..k : lines[j].kind = "item"
\* No Only in line for the file is left in the text.
NoOnlyInLine(lines, f) ==
  \A k \in 1..Len(lines) : ~(lines[k].kind = "Only in" /\ lines[k].file = f)

\* C13: a file that is in packages/<folder> only is listed in the section of
\* added files, a file that is in the installed package only in the section
\* of deleted files, and the text has no Only in line for either.
C13_AddedDeletedExtraction ==
  \A p \in Procs :
    LET r == run[p] IN
    Returned(r) =>
      \A f \in Names :
        /\ (CheckoutOf(r)[f].present /\ ~InstalledOf(r)[f].present) =>
             /\ ListedUnder(LinesOf(r), AddedHeading, "+", f)
             /\ NoOnlyInLine(LinesOf(r), f)
        /\ (InstalledOf(r)[f].present /\ ~CheckoutOf(r)[f].present) =>
             /\ ListedUnder(LinesOf(r), DeletedHeading, "-", f)
             /\ NoOnlyInLine(LinesOf(r), f)

\* The directories and time stamps a line shows.
DirsOf(line) ==
  IF line.kind = "diff" THEN {line.from.dir, line.to.dir}
  ELSE IF line.kind \in {"---", "+++"} THEN {line.path.dir}
  ELSE IF line.kind = "Only in" THEN {line.dir}
  ELSE {}
ShowsTmpFolder(line) ==
  \E dir \in DirsOf(line) : \E k \in 1..Len(dir) : dir[k][1] = "/tmp/package"
ShowsDate(line) == line.kind \in {"---", "+++"} /\ line.stamp # NoStamp

\* C15: the text computeDiff returns shows no temporary folder and no date
\* in a header, and it is the text the run before returned for the same
\* package, folder, published package and checkout, whose temporary folder
\* and time stamps were others.
C15_DiffNormalisation ==
  \A p \in Procs :
    LET r == run[p] IN
    Returned(r) =>
      /\ \A k \in 1..Len(LinesOf(r)) :
           ~ShowsTmpFolder(LinesOf(r)[k]) /\ ~ShowsDate(LinesOf(r)[k])
      /\ (r.prev.exit = "return" /\ r.prev.folder = r.folder) => r.diff = r.prev.diff

\* The two sides hold the same files with the same texts, trailing spaces
\* and the manifest aside.
SameFile(a, b) == a.present = b.present /\ (a.present => SameText(a.text, b.text))
NoDifference(inst, local) ==
  \A f \in Names \ {ManifestFile} : SameFile(inst[f], local[f])

\* C16: computeDiff returns the empty text exactly when the two sides do not
\* differ; a live run that completed on sides that differ (be it by README
\* or LICENSE alone) leaves an open pre-release PR.
C16_EmptyMeansNoRelease ==
  \A p \in Procs :
    LET r == run[p] IN
    Returned(r) =>
      /\ r.diff = EmptyText <=> NoDifference(InstalledOf(r), CheckoutOf(r))
      /\ (LiveDone(r) /\ ~NoDifference(InstalledOf(r), CheckoutOf(r)))
           => OpenPRs(r.name) # {}

====
